---- MODULE Spec2Model ----
(***************************************************************************)
(* The transaction dispatch queue of the faucet (class TransactionQueue,   *)
(* src/src/lib/auth.ts lines 107-631) as a state machine.  JavaScript runs *)
(* every handler to completion, so one action is one handler run: a        *)
(* public method call, a timer callback, or the continuation of a          *)
(* suspended processJob after its await.                                   *)
(***************************************************************************)
EXTENDS Integers, Sequences, FiniteSets, TLC

(* ------------------------------ bounds --------------------------------- *)
MaxJobs == 3            \* job ids generated under Spec (submissions + replays)
BurstJobs == 4          \* job ids generated under SpecBurst
MaxTime == 1            \* the millisecond clock runs over 0..MaxTime
MaxTries == 2           \* the maxAttempts of the jobs submitted
MaxFailures == 2        \* failed executions in one behaviour
MaxCancels == 1         \* accepted cancellations in one behaviour
BurstFailures == 1      \* failed executions in one behaviour of SpecBurst
OrderFailures == 1      \* failed executions in one behaviour of SpecOrder
RetryJobs == 2          \* job ids generated under SpecRetry
DeadLetterJobs == 102   \* job ids generated under SpecDeadLetter
StoreJobs == 2          \* job ids generated under SpecStore
LiveJobs == 2           \* job ids generated under SpecLive
ClassifyJobs == 2       \* job ids generated under SpecClassify
BackoffJobs == 2        \* job ids generated under SpecBackoff
BackoffTries == 7       \* the maxAttempts of the jobs of SpecBackoff
ClaimRequests == 7      \* claim requests accepted or under way, SpecClaim
ClearJobs == 3          \* job ids generated under SpecClear
TimeoutJobs == 2        \* job ids generated under SpecTimeout
DestroyJobs == 2        \* job ids generated under SpecDestroy
SweepTime == 1          \* SpecStore's clock runs up to RetentionWindow + SweepTime

(* ------------------------- program constants --------------------------- *)
maxConcurrentJobs == 3
routeMaxAttempts == 3   \* maxAttempts: 3 of the claim route
DeadLetterCapacity == 100
RetentionWindow == 86400000   \* 24 * 60 * 60 * 1000 ms
BackoffBase == 1000     \* ms
BackoffCap == 30000     \* ms
JitterRange == 1000     \* Math.random() * 1000
DailyLimit == 5         \* the claims a key may count in dailyClaims

Undefined == 0          \* an absent optional number (job.position)
NoError == "none"       \* job.error === undefined
NoHash == "none"        \* job.transactionHash === undefined

(* ----------------------------- payloads -------------------------------- *)
\* The shapes of QueueJob.type / QueueJob.data that validateJobData tells
\* apart: a well-formed recipient, a malformed one, a TOKEN_CLAIM with a
\* malformed or missing token address.
Payloads ==
  { [type |-> "ETH_CLAIM",   address |-> "ok",  tokenAddress |-> "absent"],
    [type |-> "TOKEN_CLAIM", address |-> "ok",  tokenAddress |-> "ok"],
    [type |-> "ETH_CLAIM",   address |-> "bad", tokenAddress |-> "absent"],
    [type |-> "TOKEN_CLAIM", address |-> "ok",  tokenAddress |-> "bad"] }

\* String.prototype.toLowerCase on an address: "OK" is the well-formed
\* address "ok" spelled with upper-case hex digits.
toLowerCase(address) == IF address = "OK" THEN "ok" ELSE address

(* ------------------------- error messages ------------------------------ *)
TimeoutMessage == "Transaction submission timeout - network may be congested"
InvalidRecipient == "Invalid recipient address"
InvalidToken == "Invalid token address"

\* Failures the executor (blockchainService.claimEth / claimToken) raises.
ExecutorErrors == { "insufficient funds for gas", "network timeout" }

\* More of them: the texts blockchain.ts throws itself and texts of the
\* provider and the contracts behind it.
CooldownMessage == "Cooldown active. Try again in 5 minutes"
BalanceMessage == "execution reverted: ERC20: transfer amount exceeds balance"

Messages ==
  ExecutorErrors \cup
  { TimeoutMessage, InvalidRecipient, InvalidToken, "Address is blacklisted",
    CooldownMessage, "Token not supported", "Max retries exceeded",
    "execution reverted", BalanceMessage, "nonce too low",
    "rate limit exceeded", "gas required exceeds allowance" }

\* message.toLowerCase().includes(pattern), tabulated for the messages of the
\* model and the patterns isRetryableError looks for.
LowerIncludes(message, pattern) ==
  pattern \in
    CASE message = "insufficient funds for gas" -> {"insufficient funds", "gas"}
      [] message = "network timeout"            -> {"network", "timeout"}
      [] message = "execution reverted"         -> {}
      [] message = TimeoutMessage               -> {"timeout", "network"}
      [] message = InvalidRecipient             -> {}
      [] message = InvalidToken                 -> {"invalid token"}
      [] message = "Address is blacklisted"     -> {"blacklisted"}
      [] message = CooldownMessage              -> {"cooldown"}
      [] message = "Token not supported"        -> {"not supported"}
      [] message = "Max retries exceeded"       -> {}
      [] message = BalanceMessage               -> {}
      [] message = "nonce too low"              -> {"nonce"}
      [] message = "rate limit exceeded"        -> {"rate limit"}
      [] message = "gas required exceeds allowance" -> {"gas"}
      [] OTHER                                  -> {}

\* message.includes(pattern) (case-sensitive), tabulated for the patterns
\* categorizeError looks for.
Includes(message, pattern) ==
  pattern \in
    CASE message = "insufficient funds for gas" -> {"insufficient funds", "gas"}
      [] message = "network timeout"            -> {"network", "timeout"}
      [] message = "execution reverted"         -> {"revert"}
      [] message = TimeoutMessage
           -> {TimeoutMessage, "timeout", "network"}
      [] message = InvalidRecipient             -> {}
      [] message = InvalidToken                 -> {}
      [] message = "Address is blacklisted"     -> {}
      [] message = CooldownMessage              -> {"Cooldown"}
      [] message = "Token not supported"        -> {}
      [] message = "Max retries exceeded"       -> {}
      [] message = BalanceMessage               -> {"revert", "balance"}
      [] message = "nonce too low"              -> {"nonce"}
      [] message = "rate limit exceeded"        -> {"rate limit"}
      [] message = "gas required exceeds allowance" -> {"gas"}
      [] OTHER                                  -> {}

\* isRetryableError with the retryable patterns looked for first.
isRetryableErrorRetryFirst(message) ==
  IF \E p \in {"network", "connection", "timeout", "rate limit", "gas",
                "nonce", "temporary"} : LowerIncludes(message, p)
  THEN TRUE
  ELSE ~ \E p \in {"insufficient funds", "cooldown", "blacklisted",
                    "invalid address", "invalid token", "unauthorized",
                    "forbidden", "not supported"} : LowerIncludes(message, p)

\* The non-retryable patterns with 'timeout' among them.
nonRetryablePatternsWithTimeout ==
  << "insufficient funds", "cooldown", "blacklisted", "invalid address",
     "invalid token", "unauthorized", "forbidden", "not supported",
     "timeout" >>

nonRetryablePatterns ==
  << "insufficient funds", "cooldown", "blacklisted", "invalid address",
     "invalid token", "unauthorized", "forbidden", "not supported" >>

retryablePatterns ==
  << "network", "connection", "timeout", "rate limit", "gas", "nonce",
     "temporary" >>

\* isRetryableError with unknown errors defaulting to non-retryable.
isRetryableErrorUnknownFails(message) ==
  IF \E i \in 1..Len(nonRetryablePatterns) :
       LowerIncludes(message, nonRetryablePatterns[i])
  THEN FALSE
  ELSE \E i \in 1..Len(retryablePatterns) :
         LowerIncludes(message, retryablePatterns[i])

isRetryableError(message) ==
  IF \E i \in 1..Len(nonRetryablePatterns) :
       LowerIncludes(message, nonRetryablePatterns[i])
  THEN FALSE
  ELSE IF \E i \in 1..Len(retryablePatterns) :
            LowerIncludes(message, retryablePatterns[i])
       THEN TRUE
       ELSE TRUE

\* The category prefix categorizeError puts in front of the message.
categorizeError(message) ==
  IF Includes(message, TimeoutMessage) THEN "Network congestion"
  ELSE IF Includes(message, "Transaction timeout - blockchain confirmation took too long")
       THEN "Transaction timeout"
  ELSE IF Includes(message, "network") \/ Includes(message, "connection")
          \/ Includes(message, "timeout") THEN "Network error"
  ELSE IF Includes(message, "insufficient funds") \/ Includes(message, "balance")
       THEN "Insufficient funds"
  ELSE IF Includes(message, "gas") \/ Includes(message, "Gas") THEN "Gas error"
  ELSE IF Includes(message, "nonce") \/ Includes(message, "Nonce") THEN "Nonce error"
  ELSE IF Includes(message, "revert") \/ Includes(message, "Revert")
       THEN "Transaction reverted"
  ELSE IF Includes(message, "rate limit") \/ Includes(message, "too many requests")
       THEN "Rate limited"
  ELSE IF Includes(message, "cooldown") \/ Includes(message, "Cooldown")
       THEN "Cooldown period not met"
  ELSE "Unknown error"

\* validateJobData: the message it throws, or NoError when the data is fine.
validateJobData(job) ==
  IF toLowerCase(job.data.address) # "ok" THEN InvalidRecipient
  ELSE IF job.type = "TOKEN_CLAIM" /\ job.data.tokenAddress # "ok"
       THEN InvalidToken
  ELSE NoError

(* ------------------------------- state --------------------------------- *)
VARIABLES
  heap,            \* the QueueJob objects ever created, by id (shared by
                   \* reference between the Map, the queue and the closures)
  jobs,            \* this.jobs: the ids that have a record in the Map
  pendingQueue,    \* this.pendingQueue: sequence of job ids
  processingJobs,  \* this.processingJobs: set of job ids
  deadLetterQueue, \* this.deadLetterQueue: copies, in insertion order
  jobsToProcess,   \* the local batch of processNextJobs: what the handler
                   \* run that led to this state spliced off the queue
  running,         \* ids whose processJob is suspended at an await
  retryTimers,     \* ids with a backoff setTimeout outstanding
  timerDelay,      \* the delay each of these setTimeout calls was given
  jitter,          \* Math.random() * 1000 at its next call, in whole ms
  now,             \* Date.now()
  dailyClaims,     \* the claim route's dailyClaims: the count under each key
  directRequests,  \* the claim requests suspended at the await of the
                   \* direct path: the claimData each of them read
  directClaims,    \* the claims the direct path has executed
  executorCalls,   \* the calls of blockchainService.claimEth / claimToken
                   \* made by processJob and not settled: << id, attempt >>
  isProcessing     \* this.isProcessing: the tick's setInterval is set

vars == << heap, jobs, pendingQueue, processingJobs, deadLetterQueue,
           jobsToProcess, running, retryTimers, timerDelay, jitter, now,
           dailyClaims, directRequests, directClaims, executorCalls,
           isProcessing >>

\* the state of src/src/app/api/faucet/claim/route.ts
routeState == << dailyClaims, directRequests, directClaims >>

\* generateJobId: an id no job has had (ids are numbered in creation order).
generateJobId == Len(heap) + 1

JobIds == 1..Len(heap)

Init ==
  /\ heap = << >>
  /\ jobs = {}
  /\ pendingQueue = << >>
  /\ processingJobs = {}
  /\ deadLetterQueue = << >>
  /\ jobsToProcess = << >>
  /\ running = {}
  /\ retryTimers = {}
  /\ timerDelay = << >>
  /\ jitter = 0
  /\ now = 0
  /\ dailyClaims = << >>
  /\ directRequests = << >>
  /\ directClaims = 0
  /\ executorCalls = {}
  /\ isProcessing = TRUE

(* ------------------------------ helpers -------------------------------- *)
Range(s) == { s[i] : i \in 1..Len(s) }

\* Array.prototype.findIndex: the first place of x in s, 0 when it has none.
IndexOfNothing(s, x) == 0

IndexOf(s, x) ==
  IF \E i \in 1..Len(s) : s[i] = x
  THEN CHOOSE i \in 1..Len(s) : s[i] = x /\ \A k \in 1..(i-1) : s[k] # x
  ELSE 0

\* Array.prototype.splice(i, 1)
RemoveAtNothing(s, i) == s

RemoveAt(s, i) == SubSeq(s, 1, i-1) \o SubSeq(s, i+1, Len(s))

Min(a, b) == IF a < b THEN a ELSE b

\* updateQueuePositions: position = index + 1 for every job of the queue.
updateQueuePositionsAsPriority(h, q) ==
  [ i \in 1..Len(h) |->
      IF i \in Range(q) THEN [h[i] EXCEPT !.priority = IndexOf(q, i)]
      ELSE h[i] ]

updateQueuePositions(h, q) ==
  [ i \in 1..Len(h) |->
      IF i \in Range(q) THEN [h[i] EXCEPT !.position = IndexOf(q, i)]
      ELSE h[i] ]

\* The comparator of processNextJobs: negative when a sorts before b.
CompareByPriorityOnly(h, a, b) == h[a].priority - h[b].priority

Compare(h, a, b) ==
  IF h[a].priority # h[b].priority
  THEN h[a].priority - h[b].priority
  ELSE h[a].createdAt - h[b].createdAt

\* Array.prototype.sort is stable: insertion behind every element that
\* does not compare greater.
RECURSIVE InsertSorted(_, _, _)
InsertSorted(h, s, x) ==
  IF s = << >> THEN << x >>
  ELSE IF Compare(h, x, Head(s)) < 0 THEN << x >> \o s
       ELSE << Head(s) >> \o InsertSorted(h, Tail(s), x)

RECURSIVE SortQueue(_, _)
SortQueue(h, q) ==
  IF q = << >> THEN << >>
  ELSE InsertSorted(h, SortQueue(h, SubSeq(q, 1, Len(q)-1)), q[Len(q)])


(* --------------------- dead-letter store (Map) ------------------------- *)
DeadLetterIds == { deadLetterQueue[i].id : i \in 1..Len(deadLetterQueue) }

\* moveToDeadLetterQueue: Map.set of a copy of the job (a key already present
\* keeps its place), then the oldest key is deleted when the size is over
\* the capacity.
moveToDeadLetterQueueDropped(dlq, job, t) == dlq

moveToDeadLetterQueueUnbounded(dlq, job, t) ==
  Append(dlq, [job EXCEPT !.status = "failed", !.updatedAt = t])

moveToDeadLetterQueue(dlq, job, t) ==
  LET copy == [job EXCEPT !.status = "failed", !.updatedAt = t]
      set  == IF \E i \in 1..Len(dlq) : dlq[i].id = job.id
              THEN [ i \in 1..Len(dlq) |->
                       IF dlq[i].id = job.id THEN copy ELSE dlq[i] ]
              ELSE Append(dlq, copy)
  IN IF Len(set) > DeadLetterCapacity THEN Tail(set) ELSE set

\* this.deadLetterQueue.delete(jobId): the other entries keep their order.
deadLetterDeleteKept(dlq, jobId) == dlq

deadLetterDelete(dlq, jobId) ==
  LET Other(entry) == entry.id # jobId IN SelectSeq(dlq, Other)

\* getDeadLetterQueue: Array.from(this.deadLetterQueue.values()), a new
\* array at every call.
getDeadLetterQueue == deadLetterQueue

(* ---------------------------- processJob ------------------------------- *)
\* The part of the state processJob works on, threaded through the calls of
\* one handler run.
QueueState(h, p, d, r, t) ==
  [ heap |-> h, processingJobs |-> p, deadLetterQueue |-> d,
    running |-> r, retryTimers |-> t, timerDelay |-> timerDelay,
    executorCalls |-> executorCalls ]

\* The finally block of processJob: this.processingJobs.delete(job.id).
releaseSlotKept(inFlight, id) == inFlight

releaseSlot(inFlight, id) == inFlight \ {id}

\* job.attempts >= job.maxAttempts
attemptsExhaustedStrict(job) == job.attempts > job.maxAttempts

attemptsExhausted(job) == job.attempts >= job.maxAttempts

\* The delay of the retry: Math.min(1000 * Math.pow(2, job.attempts), 30000)
\* plus the jitter.
backoffDelayUncapped(attempts, jitterDrawn) ==
  BackoffBase * 2^attempts + jitterDrawn

backoffDelay(attempts, jitterDrawn) ==
  Min(BackoffBase * 2^attempts, BackoffCap) + jitterDrawn

\* The catch block of processJob followed by its finally block.
processJobFailureCounted(st, id, message) ==
  LET job == [st.heap[id] EXCEPT !.error = categorizeError(message)]
  IN IF ~isRetryableError(message) \/ attemptsExhausted(job)
     THEN LET failed == [job EXCEPT !.status = "failed", !.updatedAt = now]
          IN [ st EXCEPT
                 !.heap = [st.heap EXCEPT ![id] = failed],
                 !.deadLetterQueue =
                    moveToDeadLetterQueue(st.deadLetterQueue, failed, now),
                 !.processingJobs = releaseSlot(st.processingJobs, id) ]
     ELSE [ st EXCEPT
              !.heap = [st.heap EXCEPT
                          ![id] = [job EXCEPT !.status = "retrying",
                                              !.attempts = @ + 1,
                                              !.updatedAt = now]],
              !.retryTimers = st.retryTimers \cup {id},
              !.timerDelay =
                 (id :> backoffDelay(job.attempts, jitter)) @@ st.timerDelay,
              !.processingJobs = releaseSlot(st.processingJobs, id) ]

processJobFailure(st, id, message) ==
  LET job == [st.heap[id] EXCEPT !.error = categorizeError(message)]
  IN IF ~isRetryableError(message) \/ attemptsExhausted(job)
     THEN LET failed == [job EXCEPT !.status = "failed", !.updatedAt = now]
          IN [ st EXCEPT
                 !.heap = [st.heap EXCEPT ![id] = failed],
                 !.deadLetterQueue =
                    moveToDeadLetterQueue(st.deadLetterQueue, failed, now),
                 !.processingJobs = releaseSlot(st.processingJobs, id) ]
     ELSE [ st EXCEPT
              !.heap = [st.heap EXCEPT
                          ![id] = [job EXCEPT !.status = "retrying",
                                              !.updatedAt = now]],
              !.retryTimers = st.retryTimers \cup {id},
              !.timerDelay =
                 (id :> backoffDelay(job.attempts, jitter)) @@ st.timerDelay,
              !.processingJobs = releaseSlot(st.processingJobs, id) ]

\* The success path of processJob followed by its finally block.
processJobSuccessKeepsSlot(st, id) ==
  [ st EXCEPT
      !.heap = [st.heap EXCEPT
                  ![id] = [st.heap[id] EXCEPT !.status = "completed",
                                               !.transactionHash = "0xhash",
                                               !.updatedAt = now]] ]

processJobSuccess(st, id) ==
  [ st EXCEPT
      !.heap = [st.heap EXCEPT
                  ![id] = [st.heap[id] EXCEPT !.status = "completed",
                                               !.transactionHash = "0xhash",
                                               !.updatedAt = now]],
      !.processingJobs = releaseSlot(st.processingJobs, id) ]

\* processJob up to its first await: the guard, the bookkeeping, and
\* validateJobData, whose throw is caught before the call returns.
processJob(st, id) ==
  IF id \in st.processingJobs THEN st
  ELSE
    LET started == [st.heap[id] EXCEPT !.status = "processing",
                                       !.updatedAt = now,
                                       !.attempts = @ + 1]
        st1 == [ st EXCEPT !.heap = [st.heap EXCEPT ![id] = started],
                           !.processingJobs = st.processingJobs \cup {id} ]
        invalid == validateJobData(started)
    IN IF invalid # NoError
       THEN processJobFailure(st1, id, invalid)
       ELSE [ st1 EXCEPT !.running = st.running \cup {id},
                         !.executorCalls =
                            st.executorCalls \cup {<< id, started.attempts >>} ]

\* this.maxConcurrentJobs - this.processingJobs.size
freeSlotsOfIdleQueue(inFlight) == maxConcurrentJobs

freeSlotsLessBackoffs(inFlight) ==
  maxConcurrentJobs - Cardinality(inFlight) - Cardinality(retryTimers)

freeSlots(inFlight) == maxConcurrentJobs - Cardinality(inFlight)

\* for (const job of jobsToProcess) this.processJob(job)
RECURSIVE processAll(_, _)
processAll(st, batch) ==
  IF batch = << >> THEN st
  ELSE processAll(processJob(st, Head(batch)), Tail(batch))

(* ------------------------------ actions -------------------------------- *)
\* What callers submit: Omit<QueueJob, id|status|attempts|createdAt|...>.
JobInput(payload, priority, maxAttempts) ==
  [ type |-> payload.type,
    data |-> [address |-> payload.address,
              tokenAddress |-> payload.tokenAddress],
    priority |-> priority, maxAttempts |-> maxAttempts ]

addJobCall(jobData) ==
  LET jobId == generateJobId
      job == [ id |-> jobId, status |-> "pending", attempts |-> 0,
               createdAt |-> now, updatedAt |-> now,
               position |-> Len(pendingQueue) + 1,
               type |-> jobData.type, data |-> jobData.data,
               priority |-> jobData.priority,
               maxAttempts |-> jobData.maxAttempts,
               error |-> NoError, transactionHash |-> NoHash ]
      queue == Append(pendingQueue, jobId)
  IN /\ jobs' = jobs \cup {jobId}
     /\ pendingQueue' = queue
     /\ heap' = updateQueuePositions(Append(heap, job), queue)
     /\ jobsToProcess' = << >>
     /\ UNCHANGED << processingJobs, deadLetterQueue, running, retryTimers,
                     timerDelay, jitter, now, executorCalls, isProcessing >>

\* addJob called by itself, outside a claim request.
addJob(jobData) == addJobCall(jobData) /\ UNCHANGED routeState

\* The guard of cancelJob: the job has a record and is pending.
cancellableUnlessProcessing(jobId) ==
  jobId \in jobs /\ heap[jobId].status # "processing"

cancellableOrRetrying(jobId) ==
  jobId \in jobs /\ heap[jobId].status \in {"pending", "retrying"}

cancellable(jobId) == jobId \in jobs /\ heap[jobId].status = "pending"

cancelJob(jobId) ==
  IF ~cancellable(jobId)
  THEN UNCHANGED vars
  ELSE
    LET h1 == [heap EXCEPT ![jobId] = [@ EXCEPT !.status = "failed",
                                                !.error = "Cancelled by user",
                                                !.updatedAt = now]]
        index == IndexOf(pendingQueue, jobId)
    IN /\ IF index # 0
          THEN /\ pendingQueue' = RemoveAt(pendingQueue, index)
               /\ heap' = updateQueuePositions(h1, RemoveAt(pendingQueue, index))
          ELSE /\ pendingQueue' = pendingQueue
               /\ heap' = h1
       /\ jobsToProcess' = << >>
       /\ UNCHANGED << jobs, processingJobs, deadLetterQueue, running,
                       retryTimers, timerDelay, jitter, now,
                       routeState, executorCalls, isProcessing >>

\* The setInterval callback of startProcessing.
processNextJobs ==
  IF Cardinality(processingJobs) >= maxConcurrentJobs
  THEN UNCHANGED vars
  ELSE
    LET sorted == SortQueue(heap, pendingQueue)
        count  == Min(freeSlots(processingJobs), Len(sorted))
        batch  == SubSeq(sorted, 1, count)
        rest   == SubSeq(sorted, count + 1, Len(sorted))
        st     == processAll(QueueState(heap, processingJobs, deadLetterQueue,
                                        running, retryTimers), batch)
    IN /\ jobsToProcess' = batch
       /\ pendingQueue' = rest
       /\ heap' = updateQueuePositions(st.heap, rest)
       /\ processingJobs' = st.processingJobs
       /\ deadLetterQueue' = st.deadLetterQueue
       /\ running' = st.running
       /\ retryTimers' = st.retryTimers
       /\ timerDelay' = st.timerDelay
       /\ executorCalls' = st.executorCalls
       /\ UNCHANGED << jobs, now, jitter,
                       routeState, isProcessing >>

\* A suspended processJob resumes with the executor's transaction hash.
ExecutionSucceeds(id) ==
  /\ id \in running
  /\ LET st == processJobSuccess(
                 QueueState(heap, processingJobs, deadLetterQueue,
                            running \ {id}, retryTimers), id)
     IN /\ heap' = st.heap
        /\ processingJobs' = st.processingJobs
        /\ running' = st.running
  /\ executorCalls' = executorCalls \ {<< id, heap[id].attempts >>}
  /\ jobsToProcess' = << >>
  /\ UNCHANGED << jobs, pendingQueue, deadLetterQueue, retryTimers,
                  timerDelay, jitter, now,
                  routeState, isProcessing >>

\* A suspended processJob resumes with a rejection: the executor threw, or
\* the 60 s timeoutPromise won the race, and then the executor's call, which
\* nothing cancels, goes on.
ExecutionFails(id, message) ==
  /\ id \in running
  /\ LET st == processJobFailure(
                 QueueState(heap, processingJobs, deadLetterQueue,
                            running \ {id}, retryTimers), id, message)
     IN /\ heap' = st.heap
        /\ processingJobs' = st.processingJobs
        /\ deadLetterQueue' = st.deadLetterQueue
        /\ running' = st.running
        /\ retryTimers' = st.retryTimers
        /\ timerDelay' = st.timerDelay
  /\ executorCalls' = IF message = TimeoutMessage THEN executorCalls
                      ELSE executorCalls \ {<< id, heap[id].attempts >>}
  /\ jobsToProcess' = << >>
  /\ UNCHANGED << jobs, pendingQueue, now, jitter,
                  routeState, isProcessing >>

\* A call of the executor that lost the race against the timeout settles:
\* its outcome reaches nobody.
ExecutorSettlesLate(call) ==
  /\ call \in executorCalls
  /\ ~(call[1] \in running /\ call[2] = heap[call[1]].attempts)
  /\ executorCalls' = executorCalls \ {call}
  /\ jobsToProcess' = << >>
  /\ UNCHANGED << heap, jobs, pendingQueue, processingJobs, deadLetterQueue,
                  running, retryTimers, timerDelay, jitter, now,
                  routeState, isProcessing >>

\* The backoff setTimeout callback of processJob.
RetryTimerFires(id) ==
  /\ id \in retryTimers
  /\ retryTimers' = retryTimers \ {id}
  /\ timerDelay' = [ k \in DOMAIN timerDelay \ {id} |-> timerDelay[k] ]
  /\ IF heap[id].status = "retrying"
     THEN LET queue == Append(pendingQueue, id)
          IN /\ pendingQueue' = queue
             /\ heap' = updateQueuePositions(
                          [heap EXCEPT ![id] = [@ EXCEPT !.status = "pending"]],
                          queue)
     ELSE UNCHANGED << heap, pendingQueue,
                       routeState, executorCalls, isProcessing >>
  /\ jobsToProcess' = << >>
  /\ UNCHANGED << jobs, processingJobs, deadLetterQueue, running, now,
                  jitter,
                  routeState, executorCalls, isProcessing >>

\* this.deadLetterQueue.get(jobId): the entry under that key, if there is one.
deadLetterGetAny(dlq, jobId) == Range(dlq)

deadLetterGet(dlq, jobId) == { entry \in Range(dlq) : entry.id = jobId }

retryFailedJob(jobId) ==
  IF deadLetterGet(deadLetterQueue, jobId) = {}
  THEN UNCHANGED vars
  ELSE
    LET failedJob == CHOOSE entry \in deadLetterGet(deadLetterQueue, jobId) :
                       TRUE
        newId == generateJobId
        retryJob == [failedJob EXCEPT !.id = newId,
                                      !.status = "pending",
                                      !.attempts = 0,
                                      !.createdAt = now,
                                      !.updatedAt = now,
                                      !.error = NoError,
                                      !.transactionHash = NoHash]
        queue == Append(pendingQueue, newId)
    IN /\ jobs' = jobs \cup {newId}
       /\ pendingQueue' = queue
       /\ heap' = updateQueuePositions(Append(heap, retryJob), queue)
       /\ deadLetterQueue' = deadLetterDelete(deadLetterQueue, jobId)
       /\ jobsToProcess' = << >>
       /\ UNCHANGED << processingJobs, running, retryTimers, timerDelay,
                       jitter, now,
                       routeState, executorCalls, isProcessing >>

\* Date.now() moves on between two handler runs.
AdvanceClock ==
  /\ now < MaxTime
  /\ now' = now + 1
  /\ jobsToProcess' = << >>
  /\ UNCHANGED << heap, jobs, pendingQueue, processingJobs, deadLetterQueue,
                  running, retryTimers, timerDelay, jitter,
                  routeState, executorCalls, isProcessing >>

\* Date.now() moves on by delta between two handler runs.
TimePasses(delta) ==
  /\ now' = now + delta
  /\ jobsToProcess' = << >>
  /\ UNCHANGED << heap, jobs, pendingQueue, processingJobs, deadLetterQueue,
                  running, retryTimers, timerDelay, jitter,
                  routeState, executorCalls, isProcessing >>

\* The test of cleanupOldJobs: terminal and last updated before the cutoff.
expiredWhateverStatus(job, cutoffTime) == job.updatedAt < cutoffTime

expiredUnlessProcessing(job, cutoffTime) ==
  /\ job.status # "processing"
  /\ job.updatedAt < cutoffTime

expired(job, cutoffTime) ==
  /\ job.status = "completed" \/ job.status = "failed"
  /\ job.updatedAt < cutoffTime

\* The setInterval callback of startCleanup.
cleanupOldJobs ==
  LET cutoffTime == now - RetentionWindow
  IN /\ jobs' = { jobId \in jobs : ~expired(heap[jobId], cutoffTime) }
     /\ jobsToProcess' = << >>
     /\ UNCHANGED << heap, pendingQueue, processingJobs, deadLetterQueue,
                     running, retryTimers, timerDelay, jitter, now,
                     routeState, executorCalls, isProcessing >>

\* getJobsByAddress: the ids of the job store whose data.address is address,
\* both in lower case.
getJobsByAddressAny(address) == jobs

getJobsByAddress(address) ==
  { jobId \in jobs :
      toLowerCase(heap[jobId].data.address) = toLowerCase(address) }

clearUserJobs(address) ==
  LET userJobs == getJobsByAddress(address)
      OfOthers(entry) ==
        toLowerCase(entry.data.address) # toLowerCase(address)
  IN /\ jobs' = jobs \ { jobId \in userJobs :
                           \/ heap[jobId].status = "completed"
                           \/ heap[jobId].status = "failed" }
     /\ deadLetterQueue' = SelectSeq(deadLetterQueue, OfOthers)
     /\ jobsToProcess' = << >>
     /\ UNCHANGED << heap, pendingQueue, processingJobs, running,
                     retryTimers, timerDelay, jitter, now,
                     routeState, executorCalls, isProcessing >>

\* POST /api/queue/failed with action 'clear': for every failed job,
\* getDeadLetterQueue().splice(0) empties the array that call returned.
deadLetterClear ==
  LET failedJobs == getDeadLetterQueue
      clearedCount == Len(failedJobs)
  IN /\ jobsToProcess' = << >>
     /\ UNCHANGED << heap, jobs, pendingQueue, processingJobs,
                     deadLetterQueue, running, retryTimers, timerDelay,
                     jitter, now,
                     routeState, executorCalls, isProcessing >>

\* Math.random() has another value in store for its next call.
DrawJitter(drawn) ==
  /\ jitter' = drawn
  /\ jobsToProcess' = << >>
  /\ UNCHANGED << heap, jobs, pendingQueue, processingJobs, deadLetterQueue,
                  running, retryTimers, timerDelay, now,
                  routeState, executorCalls, isProcessing >>

\* dailyClaims.get(claimKey): the count under the key, if it has one.  The
\* key is the address (and the day, which is one and the same here).
claimDataOf(claimKey) ==
  IF claimKey \in DOMAIN dailyClaims THEN dailyClaims[claimKey]
  ELSE Undefined

\* claimData && claimData.count >= 5
limitReached(claimData) == claimData # Undefined /\ claimData >= DailyLimit

\* dailyClaims.set(claimKey, { count: (claimData?.count || 0) + 1, ... })
dailyClaimsSet(claimKey, claimData) ==
  (claimKey :> (claimData + 1)) @@ dailyClaims

\* POST /api/faucet/claim with useQueue (the default): the limit check, the
\* submission and the count, in one run.
ClaimQueued(jobData) ==
  LET claimKey == jobData.data.address
      claimData == claimDataOf(claimKey)
  IN IF limitReached(claimData)
     THEN UNCHANGED vars
     ELSE /\ addJobCall(jobData)
          /\ dailyClaims' = dailyClaimsSet(claimKey, claimData)
          /\ UNCHANGED << directRequests, directClaims >>

\* POST /api/faucet/claim with useQueue false, up to the await of
\* blockchainService.claimEth or claimToken.
ClaimDirect(payload) ==
  LET claimKey == payload.address
      claimData == claimDataOf(claimKey)
  IN IF limitReached(claimData)
     THEN UNCHANGED vars
     ELSE /\ directRequests' =
               Append(directRequests,
                      [claimKey |-> claimKey, claimData |-> claimData])
          /\ jobsToProcess' = << >>
          /\ UNCHANGED << heap, jobs, pendingQueue, processingJobs,
                          deadLetterQueue, running, retryTimers, timerDelay,
                          jitter, now, dailyClaims, directClaims,
                          executorCalls, isProcessing >>

\* The await of the direct path resolves with a transaction hash: the
\* request counts the claim from the claimData it read before the await.
ClaimDirectSucceeds(i) ==
  /\ i \in 1..Len(directRequests)
  /\ dailyClaims' = dailyClaimsSet(directRequests[i].claimKey,
                                   directRequests[i].claimData)
  /\ directRequests' = RemoveAt(directRequests, i)
  /\ directClaims' = directClaims + 1
  /\ jobsToProcess' = << >>
  /\ UNCHANGED << heap, jobs, pendingQueue, processingJobs, deadLetterQueue,
                  running, retryTimers, timerDelay, jitter, now,
                  executorCalls, isProcessing >>

\* The await of the direct path rejects: the request answers 400.
ClaimDirectFails(i) ==
  /\ i \in 1..Len(directRequests)
  /\ directRequests' = RemoveAt(directRequests, i)
  /\ jobsToProcess' = << >>
  /\ UNCHANGED << heap, jobs, pendingQueue, processingJobs, deadLetterQueue,
                  running, retryTimers, timerDelay, jitter, now,
                  dailyClaims, directClaims, executorCalls, isProcessing >>

\* destroy: the intervals are cleared and the three collections emptied;
\* the job objects, the backoff timers and the executions under way are
\* left as they are.
destroy ==
  /\ isProcessing' = FALSE
  /\ jobs' = {}
  /\ pendingQueue' = << >>
  /\ processingJobs' = {}
  /\ jobsToProcess' = << >>
  /\ UNCHANGED << heap, deadLetterQueue, running, retryTimers, timerDelay,
                  jitter, now, routeState, executorCalls >>

\* getStats: the counts of the records of the job store by status, and the
\* length of the pending queue (averageProcessingTime is left out).
getStats ==
  LET allJobs == jobs
      WithStatus(status) ==
        Cardinality({ id \in allJobs : heap[id].status = status })
  IN [ totalJobs |-> Cardinality(allJobs),
       pendingJobs |-> WithStatus("pending"),
       processingJobs |-> WithStatus("processing"),
       completedJobs |-> WithStatus("completed"),
       failedJobs |-> WithStatus("failed"),
       queueLength |-> Len(pendingQueue) ]

\* GET /api/queue/status/[jobId]: job.position, or else the place of the job
\* in getPendingJobs() (0 when it is not there).
queuePosition(job) ==
  IF job.position # Undefined THEN job.position
  ELSE IndexOf(pendingQueue, job.id)

(* --------------------------- specifications ---------------------------- *)
\* What the environment has done so far, read off the job objects: an
\* execution has failed once per attempt that is over and did not succeed.
Cancelled(i) == heap[i].error = "Cancelled by user"

RECURSIVE FailuresUpTo(_)
FailuresUpTo(n) ==
  IF n = 0 THEN 0
  ELSE FailuresUpTo(n - 1) +
       ( IF heap[n].status \in {"processing", "completed"}
         THEN heap[n].attempts - 1 ELSE heap[n].attempts )

Failures == FailuresUpTo(Len(heap))
Cancels == Cardinality({ i \in JobIds : Cancelled(i) })

\* What src/src/app/api/faucet/claim/route.ts submits: a validated address,
\* priority 1 for an ETH claim and 2 for a token claim.
RouteInputs(maxAttempts) ==
  { JobInput(p, IF p.type = "ETH_CLAIM" THEN 1 ELSE 2, maxAttempts) :
      p \in { q \in Payloads : q.address = "ok" /\ q.tokenAddress # "bad" } }

\* The queue under every operation, fed by the claim route.
Next ==
  \/ \E jobData \in RouteInputs(MaxTries) :
       /\ Len(heap) < MaxJobs
       /\ addJob(jobData)
  \/ \E jobId \in 1..(Len(heap) + 1) :
       /\ Cancels < MaxCancels
       /\ cancelJob(jobId)
  \/ processNextJobs
  \/ \E id \in JobIds : ExecutionSucceeds(id)
  \/ \E id \in JobIds, message \in ExecutorErrors :
       /\ Failures < MaxFailures
       /\ ExecutionFails(id, message)
  \/ \E id \in JobIds : RetryTimerFires(id)
  \/ \E jobId \in 1..(Len(heap) + 1) :
       /\ Len(heap) < MaxJobs
       /\ retryFailedJob(jobId)
  \/ AdvanceClock

Spec == Init /\ [][Next]_vars


\* More submissions than the ceiling has slots, executions that fail or
\* time out, cancels and replays, all within one millisecond.
NextBurst ==
  \/ \E jobData \in RouteInputs(MaxTries) :
       /\ Len(heap) < BurstJobs
       /\ addJob(jobData)
  \/ \E jobId \in 1..(Len(heap) + 1) :
       /\ Cancels < MaxCancels
       /\ cancelJob(jobId)
  \/ processNextJobs
  \/ \E id \in JobIds : ExecutionSucceeds(id)
  \/ \E id \in JobIds, message \in ExecutorErrors \cup {TimeoutMessage} :
       /\ Failures < BurstFailures
       /\ ExecutionFails(id, message)
  \/ \E id \in JobIds : RetryTimerFires(id)
  \/ \E jobId \in 1..(Len(heap) + 1) :
       /\ Len(heap) < BurstJobs
       /\ retryFailedJob(jobId)

SpecBurst == Init /\ [][NextBurst]_vars


\* The claim route's jobs (maxAttempts 3) under executions that fail, time
\* out or succeed any number of times.
NextRetry ==
  \/ \E jobData \in RouteInputs(routeMaxAttempts) :
       /\ Len(heap) < RetryJobs
       /\ addJob(jobData)
  \/ \E jobId \in 1..(Len(heap) + 1) : cancelJob(jobId)
  \/ processNextJobs
  \/ \E id \in JobIds : ExecutionSucceeds(id)
  \/ \E id \in JobIds, message \in ExecutorErrors \cup {TimeoutMessage} :
       ExecutionFails(id, message)
  \/ \E id \in JobIds : RetryTimerFires(id)
  \/ \E jobId \in 1..(Len(heap) + 1) :
       /\ Len(heap) < RetryJobs
       /\ retryFailedJob(jobId)
  \/ AdvanceClock

SpecRetry == Init /\ [][NextRetry]_vars

\* The priorities of the submissions of SpecOrder, in submission order.
ScenarioPriorities == << 2, 1, 2, 1, 3 >>

\* Submissions of mixed priority at different times, competing for the
\* slots; a failed execution re-enters the queue behind younger jobs.
NextOrder ==
  \/ \E p \in Payloads :
       /\ p.type = "ETH_CLAIM" /\ p.address = "ok"
       /\ Len(heap) < Len(ScenarioPriorities)
       /\ addJob(JobInput(p, ScenarioPriorities[Len(heap) + 1], MaxTries))
  \/ processNextJobs
  \/ \E id \in JobIds : ExecutionSucceeds(id)
  \/ \E id \in JobIds :
       /\ Failures < OrderFailures
       /\ ExecutionFails(id, "network timeout")
  \/ \E id \in JobIds : RetryTimerFires(id)
  \/ AdvanceClock

SpecOrder == Init /\ [][NextOrder]_vars


\* Claims that fail for want of funds one after the other until the
\* dead-letter store is full and over; the oldest entry may be replayed.
Idle == pendingQueue = << >> /\ processingJobs = {}

NextDeadLetter ==
  \/ \E jobData \in RouteInputs(routeMaxAttempts) :
       /\ jobData.type = "ETH_CLAIM"
       /\ Idle
       /\ Len(heap) < DeadLetterJobs
       /\ addJob(jobData)
  \/ processNextJobs
  \/ \E id \in JobIds : ExecutionFails(id, "insufficient funds for gas")
  \/ \E jobId \in DeadLetterIds :
       /\ jobId = deadLetterQueue[1].id
       /\ Idle
       /\ Len(heap) < DeadLetterJobs
       /\ retryFailedJob(jobId)

SpecDeadLetter == Init /\ [][NextDeadLetter]_vars

\* What a caller of addJob itself may submit: any payload, well-formed or
\* not (addJob takes whatever it is given).
DirectInputs(maxAttempts) ==
  { JobInput(p, IF p.type = "ETH_CLAIM" THEN 1 ELSE 2, maxAttempts) :
      p \in Payloads }

\* The addresses clearUserJobs is called with.
Addresses == { p.address : p \in Payloads }

\* The queue with its housekeeping: direct submissions, the sweeper, the
\* clearing of a user's jobs, the admin's clear, at times up to SweepTime ms
\* after the submission and after the end of the retention window.
NextStore ==
  \/ \E jobData \in DirectInputs(MaxTries) :
       /\ Len(heap) < StoreJobs
       /\ addJob(jobData)
  \/ \E jobId \in 1..(Len(heap) + 1) : cancelJob(jobId)
  \/ processNextJobs
  \/ \E id \in JobIds : ExecutionSucceeds(id)
  \/ \E id \in JobIds, message \in ExecutorErrors :
       ExecutionFails(id, message)
  \/ \E id \in JobIds : RetryTimerFires(id)
  \/ \E jobId \in 1..(Len(heap) + 1) :
       /\ Len(heap) < StoreJobs
       /\ retryFailedJob(jobId)
  \/ \E delta \in {1, RetentionWindow} :
       /\ now + delta <= RetentionWindow + SweepTime
       /\ (now + delta) % RetentionWindow <= SweepTime
       /\ TimePasses(delta)
  \/ cleanupOldJobs
  \/ \E address \in Addresses : clearUserJobs(address)
  \/ deadLetterClear

SpecStore == Init /\ [][NextStore]_vars

\* Direct submissions, well-formed or not, whose executions succeed, fail
\* or time out; cancels and replays.
NextLive ==
  \/ \E jobData \in DirectInputs(MaxTries) :
       /\ Len(heap) < LiveJobs
       /\ addJob(jobData)
  \/ \E jobId \in 1..(Len(heap) + 1) : cancelJob(jobId)
  \/ processNextJobs
  \/ \E id \in JobIds : ExecutionSucceeds(id)
  \/ \E id \in JobIds, message \in ExecutorErrors \cup {TimeoutMessage} :
       ExecutionFails(id, message)
  \/ \E id \in JobIds : RetryTimerFires(id)
  \/ \E jobId \in 1..(Len(heap) + 1) :
       /\ Len(heap) < LiveJobs
       /\ retryFailedJob(jobId)

\* The await of processJob settles: Promise.race resolves with the
\* executor's hash, or rejects with its error or, 60 s after the start at the
\* latest, with the timeout.
Settles(id) ==
  \/ ExecutionSucceeds(id)
  \/ \E message \in ExecutorErrors \cup {TimeoutMessage} :
       ExecutionFails(id, message)

SpecLive ==
  /\ Init
  /\ [][NextLive]_vars
  /\ \A id \in 1..LiveJobs : WF_vars(Settles(id))

\* A tick would start a job: the queue has one and a slot is free.
TickDue ==
  pendingQueue # << >> /\ Cardinality(processingJobs) < maxConcurrentJobs

\* The same queue with its scheduling: the setInterval tick keeps firing
\* (a tick that stays due takes place), every backoff timer fires, and every
\* await of processJob settles.
SpecFair ==
  /\ Init
  /\ [][NextLive]_vars
  /\ []<>(~TickDue) \/ []<><<processNextJobs>>_vars
  /\ WF_vars(\E id \in JobIds : RetryTimerFires(id))
  /\ WF_vars(\E id \in JobIds : Settles(id))

\* The claim route's jobs under every failure text of the executor.
NextClassify ==
  \/ \E jobData \in RouteInputs(MaxTries) :
       /\ Len(heap) < ClassifyJobs
       /\ addJob(jobData)
  \/ processNextJobs
  \/ \E id \in JobIds : ExecutionSucceeds(id)
  \/ \E id \in JobIds, message \in Messages : ExecutionFails(id, message)
  \/ \E id \in JobIds : RetryTimerFires(id)

SpecClassify == Init /\ [][NextClassify]_vars

\* The values of Math.random() * 1000 drawn: the ends of its range.
Jitters == { 0, JitterRange - 1 }

\* ETH claims with many attempts whose executions keep failing with a
\* network error, under either jitter.
NextBackoff ==
  \/ \E jobData \in RouteInputs(BackoffTries) :
       /\ jobData.type = "ETH_CLAIM"
       /\ Len(heap) < BackoffJobs
       /\ addJob(jobData)
  \/ processNextJobs
  \/ \E id \in JobIds : ExecutionSucceeds(id)
  \/ \E id \in JobIds : ExecutionFails(id, "network timeout")
  \/ \E id \in JobIds : RetryTimerFires(id)
  \/ \E drawn \in Jitters : DrawJitter(drawn)

SpecBackoff == Init /\ [][NextBackoff]_vars

\* What the claim route lets through of a request: an address that
\* ethers.isAddress accepts, with no token or a token address it accepts.
RoutePayloads ==
  { p \in Payloads : p.address = "ok" /\ p.tokenAddress # "bad" }

\* Claim requests of one address on one day, queued or direct, in any
\* interleaving, while the dispatcher executes the queued ones.
NextClaim ==
  \/ \E jobData \in RouteInputs(routeMaxAttempts) :
       /\ jobData.type = "ETH_CLAIM"
       /\ Len(heap) + directClaims + Len(directRequests) < ClaimRequests
       /\ ClaimQueued(jobData)
  \/ \E payload \in RoutePayloads :
       /\ payload.type = "ETH_CLAIM"
       /\ Len(heap) + directClaims + Len(directRequests) < ClaimRequests
       /\ ClaimDirect(payload)
  \/ \E i \in 1..Len(directRequests) : ClaimDirectSucceeds(i)
  \/ \E i \in 1..Len(directRequests) : ClaimDirectFails(i)
  \/ processNextJobs
  \/ \E id \in JobIds : ExecutionSucceeds(id)

SpecClaim == Init /\ [][NextClaim]_vars

\* The addresses of SpecClear: a well-formed one in two spellings and
\* another one.
ClearAddresses == { "ok", "OK", "bad" }

\* ETH claims submitted to addJob under those addresses.
ClearInputs ==
  { JobInput([type |-> "ETH_CLAIM", address |-> address,
              tokenAddress |-> "absent"], 1, MaxTries) :
      address \in ClearAddresses }

\* Jobs of several addresses in every status, and the clearing of a user's
\* jobs under either spelling of the address.
NextClear ==
  \/ \E jobData \in ClearInputs :
       /\ Len(heap) < ClearJobs
       /\ addJob(jobData)
  \/ \E jobId \in JobIds : cancelJob(jobId)
  \/ processNextJobs
  \/ \E id \in JobIds : ExecutionSucceeds(id)
  \/ \E id \in JobIds : ExecutionFails(id, "network timeout")
  \/ \E id \in JobIds : RetryTimerFires(id)
  \/ \E address \in ClearAddresses : clearUserJobs(address)

SpecClear == Init /\ [][NextClear]_vars

\* The claim route's jobs when the executor is slow: a call settles in
\* time, or the 60 s timeout wins the race and the call settles later.
NextTimeout ==
  \/ \E jobData \in RouteInputs(routeMaxAttempts) :
       /\ Len(heap) < TimeoutJobs
       /\ addJob(jobData)
  \/ processNextJobs
  \/ \E id \in JobIds : ExecutionSucceeds(id)
  \/ \E id \in JobIds : ExecutionFails(id, TimeoutMessage)
  \/ \E id \in JobIds : RetryTimerFires(id)
  \/ \E call \in executorCalls : ExecutorSettlesLate(call)

SpecTimeout == Init /\ [][NextTimeout]_vars

\* The queue up to its destroy and after it: submissions and ticks stop
\* with destroy (the interval is cleared, and getTransactionQueue hands out
\* a new queue after the shutdown handler); the timers and the executions
\* that are outstanding go on.
NextDestroy ==
  \/ \E jobData \in RouteInputs(MaxTries) :
       /\ isProcessing
       /\ Len(heap) < DestroyJobs
       /\ addJob(jobData)
  \/ isProcessing /\ processNextJobs
  \/ \E id \in JobIds : ExecutionSucceeds(id)
  \/ \E id \in JobIds, message \in ExecutorErrors :
       ExecutionFails(id, message)
  \/ \E id \in JobIds : RetryTimerFires(id)
  \/ isProcessing /\ destroy

SpecDestroy == Init /\ [][NextDestroy]_vars

(* ------------------------------ claims --------------------------------- *)
PendingIds == Range(pendingQueue)

\* a sorts strictly before b by (priority ascending, createdAt ascending)
Precedes(a, b) ==
  \/ heap[a].priority < heap[b].priority
  \/ /\ heap[a].priority = heap[b].priority
     /\ heap[a].createdAt < heap[b].createdAt

\* the jobs whose execution this step starts
StartedNow == { j \in JobIds : heap'[j].attempts = heap[j].attempts + 1 }

\* the execution of j ends in this step with a failure
FailsNow(j) ==
  j \in running /\ j \notin running' /\ heap'[j].status # "completed"

\* C1: under SpecBurst (more submissions than slots, failures, timeouts,
\* retry re-entries, cancels, replays) the in-flight set never holds more
\* than maxConcurrentJobs = 3 job ids.
C1_InFlightCeiling == Cardinality(processingJobs) <= maxConcurrentJobs

\* A dispatch pass has filled all three slots and left a job pending.
C1_Witness ==
  /\ Cardinality(processingJobs) = maxConcurrentJobs
  /\ Len(jobsToProcess) = maxConcurrentJobs
  /\ pendingQueue # << >>

\* C2: no job id is in the in-flight set and in the pending queue at once,
\* and no job waiting in the pending queue or for its backoff timer is still
\* marked processing, so a dispatch pass never picks a job whose previous
\* attempt is in flight.
C2_NeverPendingAndInFlight ==
  /\ PendingIds \cap processingJobs = {}
  /\ retryTimers \cap processingJobs = {}
  /\ \A j \in PendingIds : heap[j].status # "processing"

\* A job is back in the pending queue after a failed attempt while another
\* job is in flight.
C2_Witness ==
  /\ \E j \in PendingIds : heap[j].attempts >= 1
  /\ processingJobs # {}

\* the dispatch order the scenario [2,1,2,1,3] must show
ScenarioOrder == << 2, 4, 1, 3, 5 >>

\* C3: a dispatch pass with k free slots starts exactly the min(k, |pending|)
\* pending jobs that are smallest by (priority, createdAt), in that order,
\* and leaves no job pending that precedes a started one; within one
\* priority a job is first started only after (or in the same batch behind)
\* the jobs submitted before it; with the priorities
\* [2,1,2,1,3] a job is first started only after (or in the same batch
\* behind) every submitted job that is earlier in job2, job4, job1, job3,
\* job5, and the pass over all five starts job2, job4, job1.
C3_DispatchOrder ==
  [][ StartedNow # {} =>
        /\ Len(jobsToProcess') =
             Min(maxConcurrentJobs - Cardinality(processingJobs),
                 Len(pendingQueue))
        /\ Range(jobsToProcess') = StartedNow
        /\ StartedNow \subseteq PendingIds
        /\ Range(pendingQueue') = PendingIds \ StartedNow
        /\ \A s \in StartedNow, r \in Range(pendingQueue') : ~Precedes(r, s)
        /\ \A i, k \in 1..Len(jobsToProcess') :
             i < k => ~Precedes(jobsToProcess'[k], jobsToProcess'[i])
        /\ \A a, b \in JobIds :
             ( /\ a < b
               /\ heap[a].priority = heap[b].priority
               /\ b \in StartedNow
               /\ heap[b].attempts = 0 )
             => /\ heap'[a].attempts >= 1
                /\ heap[a].attempts = 0 =>
                     IndexOf(jobsToProcess', a) < IndexOf(jobsToProcess', b)
        /\ \A i, k \in 1..Len(ScenarioOrder) :
             LET a == ScenarioOrder[i]
                 b == ScenarioOrder[k]
             IN ( /\ i < k
                  /\ a \in JobIds
                  /\ b \in StartedNow
                  /\ heap[b].attempts = 0 )
                => /\ heap'[a].attempts >= 1
                   /\ heap[a].attempts = 0 =>
                        IndexOf(jobsToProcess', a) < IndexOf(jobsToProcess', b)
        /\ ( /\ Len(heap) = Len(ScenarioOrder)
             /\ \A j \in JobIds : heap[j].attempts = 0 )
           => jobsToProcess' = SubSeq(ScenarioOrder, 1, maxConcurrentJobs)
    ]_vars

\* The first pass over the five jobs of the scenario has started job2, job4,
\* job1 and left job3, job5 pending.
C3_Witness ==
  /\ jobsToProcess = << 2, 4, 1 >>
  /\ pendingQueue = << 3, 5 >>
  /\ \A j \in {3, 5} : heap[j].attempts = 0

\* C4: whatever the executions do, attempts never exceeds maxAttempts, for
\* the job objects and for their dead-letter copies.
C4_AttemptsBounded ==
  /\ \A j \in JobIds : heap[j].attempts <= heap[j].maxAttempts
  /\ \A i \in 1..Len(deadLetterQueue) :
       deadLetterQueue[i].attempts <= deadLetterQueue[i].maxAttempts

\* A job has used up all three attempts.
C4_Witness ==
  \E j \in JobIds :
    /\ heap[j].attempts = heap[j].maxAttempts
    /\ heap[j].attempts = routeMaxAttempts
    /\ heap[j].status = "failed"

\* C5: an execution that fails with attempts = maxAttempts leaves the job
\* failed and in the dead-letter store, out of the pending queue, the
\* in-flight set and the retry timers; and a failed job stays failed, keeps
\* its attempts, and is in neither the pending queue nor the in-flight set
\* after any later step.
C5_ExhaustedIsDeadLettered ==
  [][ \A j \in JobIds :
        /\ ( FailsNow(j) /\ heap[j].attempts = heap[j].maxAttempts )
           => /\ heap'[j].status = "failed"
              /\ heap'[j].attempts = heap[j].attempts
              /\ \E i \in 1..Len(deadLetterQueue') :
                   /\ deadLetterQueue'[i].id = j
                   /\ deadLetterQueue'[i].status = "failed"
              /\ j \notin Range(pendingQueue')
              /\ j \notin processingJobs'
              /\ j \notin retryTimers'
        /\ heap[j].status = "failed"
           => /\ heap'[j].status = "failed"
              /\ heap'[j].attempts = heap[j].attempts
              /\ j \notin Range(pendingQueue')
              /\ j \notin processingJobs'
              /\ j \notin retryTimers'
    ]_vars

\* A third "network timeout" with maxAttempts = 3 has put the job in the
\* dead-letter store.
C5_Witness ==
  \E i \in 1..Len(deadLetterQueue) :
    /\ deadLetterQueue[i].attempts = deadLetterQueue[i].maxAttempts
    /\ deadLetterQueue[i].attempts = routeMaxAttempts
    /\ deadLetterQueue[i].error = "Network error"
    /\ heap[deadLetterQueue[i].id].status = "failed"

\* C6: a first attempt that fails with "insufficient funds for gas" (the
\* category Insufficient funds) leaves the job failed, not retrying, with a
\* dead-letter entry of status failed and attempts 1.
C6_NonRetryableDeadLetteredAtOnce ==
  [][ \A j \in JobIds :
        ( /\ FailsNow(j)
          /\ heap[j].attempts = 1
          /\ heap'[j].error = "Insufficient funds" )
        => /\ heap'[j].status = "failed"
           /\ j \notin retryTimers'
           /\ \E i \in 1..Len(deadLetterQueue') :
                /\ deadLetterQueue'[i].id = j
                /\ deadLetterQueue'[i].status = "failed"
                /\ deadLetterQueue'[i].attempts = 1
    ]_vars

\* A job is in the dead-letter store after one attempt that ran out of funds.
C6_Witness ==
  \E i \in 1..Len(deadLetterQueue) :
    /\ deadLetterQueue[i].attempts = 1
    /\ deadLetterQueue[i].status = "failed"
    /\ deadLetterQueue[i].error = "Insufficient funds"
    /\ deadLetterQueue[i].maxAttempts > 1


\* C7: a job starts as pending and its status changes only along
\* pending->processing (dispatch), processing->completed,
\* processing->failed (non-retryable failure or attempts >= maxAttempts),
\* processing->retrying (attempts < maxAttempts), retrying->pending and
\* pending->failed (cancel); completed and failed are never left.
StatusEdge(old, new, startedNow) ==
  \/ new.status = old.status
  \/ /\ old.status = "pending"
     /\ new.status = "processing"
     /\ startedNow
  \/ /\ old.status = "processing"
     /\ new.status = "completed"
  \/ /\ old.status = "processing"
     /\ new.status = "failed"
     /\ \/ new.attempts >= new.maxAttempts
        \/ new.error = "Insufficient funds"
  \/ /\ old.status = "processing"
     /\ new.status = "retrying"
     /\ new.attempts < new.maxAttempts
  \/ /\ old.status = "retrying"
     /\ new.status = "pending"
  \/ /\ old.status = "pending"
     /\ new.status = "failed"
     /\ new.error = "Cancelled by user"

C7_StatusEdges ==
  [][ /\ \A j \in JobIds : StatusEdge(heap[j], heap'[j], j \in StartedNow)
      /\ \A j \in (1..Len(heap')) \ JobIds : heap'[j].status = "pending"
    ]_vars

\* One job completed on its second attempt, one was cancelled, one was
\* dead-lettered: every edge has been taken.
C7_Witness ==
  /\ \E j \in JobIds : heap[j].status = "completed" /\ heap[j].attempts = 2
  /\ \E j \in JobIds : Cancelled(j)
  /\ DeadLetterIds # {}

InPending(j) == j \in PendingIds
InFlight(j) == j \in processingJobs
InRetryWait(j) == heap[j].status = "retrying" /\ j \in retryTimers
InTerminal(j) == j \in jobs /\ heap[j].status \in {"completed", "failed"}
InDeadLetter(j) == j \in DeadLetterIds

HowMany(flags) == Cardinality({ k \in 1..Len(flags) : flags[k] })

\* C8 as stated: every job of the job store is in exactly one of the pending
\* queue, the in-flight set, the terminal store and the dead-letter store.
C8_ExactlyOneOfFour ==
  \A j \in jobs :
    HowMany(<< InPending(j), InFlight(j), InTerminal(j), InDeadLetter(j) >>) = 1

\* C8 as amended: every job of the job store is in exactly one of the
\* pending queue, the in-flight set, the retry wait (status retrying, held by
\* its backoff timer) and the terminal store; a dead-letter entry is a copy of
\* a job that is failed in the job store while its record exists, and that is
\* in neither the pending queue, the in-flight set nor the retry wait.
C8_ExactlyOneStore ==
  /\ \A j \in jobs :
       HowMany(<< InPending(j), InFlight(j), InRetryWait(j),
                  InTerminal(j) >>) = 1
  /\ \A j \in DeadLetterIds :
       /\ ~InPending(j) /\ ~InFlight(j) /\ ~InRetryWait(j)
       /\ j \in jobs => heap[j].status = "failed"

\* One job waits out its backoff, one is dead-lettered, one was cancelled.
C8_Witness ==
  /\ \E j \in jobs : InRetryWait(j)
  /\ \E j \in jobs : InDeadLetter(j) /\ InTerminal(j)
  /\ \E j \in jobs : Cancelled(j) /\ ~InDeadLetter(j)

\* C9 as stated: the position of every pending job is its 1-based rank by
\* (priority, createdAt) among the pending jobs (any order among jobs that
\* tie in both).
C9_PositionIsRank ==
  \A j \in PendingIds :
    LET before == { k \in PendingIds : Precedes(k, j) }
        after  == { k \in PendingIds : Precedes(j, k) }
    IN /\ heap[j].position >= Cardinality(before) + 1
       /\ heap[j].position <= Cardinality(PendingIds) - Cardinality(after)

\* C10 as stated: the position reported for a job that is not pending is
\* undefined, for the records of the job store and the dead-letter copies.
C10_PositionOnlyWhilePending ==
  /\ \A j \in jobs :
       heap[j].status # "pending" => queuePosition(heap[j]) = Undefined
  /\ \A i \in 1..Len(deadLetterQueue) :
       queuePosition(deadLetterQueue[i]) = Undefined

\* the dead-letter entries this step inserts
InsertedNow ==
  { i \in 1..Len(deadLetterQueue') : deadLetterQueue'[i].id \notin DeadLetterIds }

\* C11: the dead-letter store never holds more than DeadLetterCapacity = 100
\* entries; a step that inserts one entry into a store that is not full
\* appends it and removes nothing; a step that inserts one entry into a full
\* store appends it and removes the first (earliest inserted) entry and no
\* other.
C11_DeadLetterBounded ==
  [][ /\ Len(deadLetterQueue') <= DeadLetterCapacity
      /\ Cardinality(InsertedNow) = 1 =>
           LET entry == deadLetterQueue'[Len(deadLetterQueue')]
           IN /\ InsertedNow = { Len(deadLetterQueue') }
              /\ IF Len(deadLetterQueue) < DeadLetterCapacity
                 THEN deadLetterQueue' = Append(deadLetterQueue, entry)
                 ELSE deadLetterQueue' = Append(Tail(deadLetterQueue), entry)
    ]_vars

\* The 101st failed claim has pushed the first one out of the full store.
C11_Witness ==
  /\ Len(deadLetterQueue) = DeadLetterCapacity
  /\ Len(heap) = DeadLetterCapacity + 1
  /\ deadLetterQueue[1].id = 2
  /\ deadLetterQueue[DeadLetterCapacity].id = DeadLetterCapacity + 1

\* the dead-letter entry of jobId
DeadLetterEntry(jobId) ==
  CHOOSE entry \in Range(deadLetterQueue) : entry.id = jobId

\* C12: a replay of an id that is in the dead-letter store creates one job
\* with a new id (different from the original and from every id in use),
\* status pending, attempts 0 and the type, payload, priority and
\* maxAttempts of the entry; puts it in the job store and at the end of the
\* pending queue; and removes the original entry, and only it, from the
\* dead-letter store.
C12_ReplayCreatesNewJob ==
  [][ \A jobId \in DeadLetterIds :
        retryFailedJob(jobId) =>
          LET newId == Len(heap')
              retryJob == heap'[newId]
              failedJob == DeadLetterEntry(jobId)
          IN /\ Len(heap') = Len(heap) + 1
             /\ retryJob.id = newId
             /\ newId # jobId
             /\ newId \notin jobs \cup DeadLetterIds
             /\ retryJob.status = "pending"
             /\ retryJob.attempts = 0
             /\ retryJob.type = failedJob.type
             /\ retryJob.data = failedJob.data
             /\ retryJob.priority = failedJob.priority
             /\ retryJob.maxAttempts = failedJob.maxAttempts
             /\ jobs' = jobs \cup {newId}
             /\ pendingQueue' = Append(pendingQueue, newId)
             /\ { deadLetterQueue'[i] : i \in 1..Len(deadLetterQueue') } =
                  Range(deadLetterQueue) \ {failedJob}
             /\ Len(deadLetterQueue') = Len(deadLetterQueue) - 1
    ]_vars

\* A dead-lettered token claim has been replayed: its entry is gone and its
\* pending successor has not been tried yet.
C12_Witness ==
  \E o, j \in JobIds :
    /\ o < j
    /\ heap[o].status = "failed" /\ heap[o].attempts >= 1
    /\ o \notin DeadLetterIds
    /\ heap[o].type = "TOKEN_CLAIM" /\ heap[j].type = "TOKEN_CLAIM"
    /\ j \in PendingIds /\ j \in jobs
    /\ heap[j].status = "pending" /\ heap[j].attempts = 0
    /\ \A k \in JobIds \ {o, j} : heap[k].type = "ETH_CLAIM"

\* C13: a replay of an id that is not in the dead-letter store (unknown, or
\* the id of a cancelled, completed or already replayed job of the job
\* store) cannot change the job objects, the job store, the pending queue,
\* the in-flight set or the dead-letter store.
C13_ReplayOfAbsentIdChangesNothing ==
  \A jobId \in 1..(Len(heap) + 1) :
    (\A i \in 1..Len(deadLetterQueue) : deadLetterQueue[i].id # jobId)
    => ~ENABLED ( /\ retryFailedJob(jobId)
                  /\ << heap, jobs, pendingQueue, processingJobs,
                        deadLetterQueue >>' #
                     << heap, jobs, pendingQueue, processingJobs,
                        deadLetterQueue >> )

\* The job store holds a completed job and a cancelled job, neither of them
\* in the dead-letter store, while the store has an entry to replay.
C13_Witness ==
  /\ \E j \in jobs \ DeadLetterIds : heap[j].status = "completed"
  /\ \E j \in jobs \ DeadLetterIds : Cancelled(j)
  /\ deadLetterQueue # << >>

\* the sequence s without the element x
Without(s, x) == LET Other(y) == y # x IN SelectSeq(s, Other)

\* C14: a cancel of a job that is pending marks it failed with the error
\* 'Cancelled by user' and takes it out of the pending queue, the other
\* pending jobs keeping their order; a cancelled job is never dispatched
\* afterwards (it stays failed, out of the pending queue and the in-flight
\* set, with the attempts it had); and a second cancel of the same id is
\* rejected: it cannot change anything.
C14_CancelPending ==
  /\ [][ \A jobId \in JobIds :
          /\ ( /\ jobId \in jobs
               /\ heap[jobId].status = "pending"
               /\ cancelJob(jobId) )
             => /\ heap'[jobId].status = "failed"
                /\ heap'[jobId].error = "Cancelled by user"
                /\ heap'[jobId].attempts = heap[jobId].attempts
                /\ pendingQueue' = Without(pendingQueue, jobId)
                /\ jobId \notin processingJobs'
                /\ jobs' = jobs
          /\ heap[jobId].error = "Cancelled by user"
             => /\ heap'[jobId].status = "failed"
                /\ heap'[jobId].error = "Cancelled by user"
                /\ heap'[jobId].attempts = heap[jobId].attempts
                /\ jobId \notin Range(pendingQueue')
                /\ jobId \notin processingJobs'
                /\ jobId \notin running'
      ]_vars
  /\ [] \A jobId \in JobIds :
          heap[jobId].error = "Cancelled by user"
          => ~ENABLED (cancelJob(jobId) /\ vars' # vars)

\* A job that failed once and re-entered the queue was cancelled while a
\* younger job was pending behind it; the clock has moved on since.
C14_Witness ==
  \E j \in JobIds :
    /\ heap[j].error = "Cancelled by user"
    /\ heap[j].status = "failed"
    /\ heap[j].attempts = 1
    /\ heap[j].updatedAt < now
    /\ \E k \in PendingIds : k > j

\* C15: a cancel of an id that has no record, or whose job is processing,
\* retrying, completed or failed, cannot change anything: not the job
\* objects (status, attempts, error), the job store, the pending queue, the
\* in-flight set, the dead-letter store, the suspended executions or the
\* backoff timers; so a processing job still runs to its own outcome.
C15_RejectedCancelChangesNothing ==
  \A jobId \in 1..(Len(heap) + 1) :
    ( \/ jobId \notin jobs
      \/ heap[jobId].status \in {"processing", "retrying", "completed",
                                 "failed"} )
    => /\ ~ENABLED ( /\ cancelJob(jobId)
                     /\ << heap, jobs, pendingQueue, processingJobs,
                           deadLetterQueue, running, retryTimers >>' #
                        << heap, jobs, pendingQueue, processingJobs,
                           deadLetterQueue, running, retryTimers >> )
       /\ ( jobId \in running /\ heap[jobId].status = "processing" )
          => ENABLED ( cancelJob(jobId) /\ jobId \in running' )

\* One job is processing, one waits for its backoff timer and one is
\* completed, at a time later than their submission.
C15_Witness ==
  /\ \E j \in jobs : heap[j].status = "processing" /\ j \in running
  /\ \E j \in jobs : heap[j].status = "retrying" /\ j \in retryTimers
  /\ \E j \in jobs : heap[j].status = "completed"
  /\ now > 0

\* C16 as stated: no job record, pending-queue entry or job id exists for a
\* payload that does not match its kind (a malformed recipient address, or
\* a TOKEN_CLAIM without a valid token address).
C16_InvalidPayloadNeverStored ==
  \A j \in JobIds \cup jobs \cup PendingIds :
    /\ heap[j].data.address = "ok"
    /\ heap[j].type = "TOKEN_CLAIM" => heap[j].data.tokenAddress = "ok"

\* C17: a job is in the in-flight set only while its status is processing;
\* a step that ends the processing status of a job takes its id out of the
\* in-flight set and leaves a slot free; and every job that is in the
\* in-flight set eventually is not, whether its execution succeeds, fails
\* retryably or not, fails validation or times out.
C17_SlotReleased ==
  /\ [] \A j \in JobIds :
          j \in processingJobs => heap[j].status = "processing"
  /\ [][ \A j \in JobIds :
          ( heap[j].status = "processing" /\ heap'[j].status # "processing" )
          => /\ j \notin processingJobs'
             /\ Cardinality(processingJobs') < maxConcurrentJobs
             /\ Cardinality(processingJobs') < Cardinality(processingJobs)
      ]_vars
  /\ \A j \in 1..LiveJobs :
       (j \in processingJobs) ~> (j \notin processingJobs)

\* A job that timed out once is in flight again, next to a job that failed
\* validation and left the in-flight set within its dispatch tick.
C17_Witness ==
  /\ \E j \in processingJobs :
       heap[j].attempts = 2 /\ heap[j].error = "Network congestion"
  /\ \E j \in JobIds \ processingJobs :
       /\ heap[j].data.tokenAddress = "bad"
       /\ heap[j].status = "failed"
       /\ heap[j].attempts = 1

\* C18 as stated: an entry leaves the dead-letter store only in a step that
\* inserts into the full store and evicts the first entry, in a replay of
\* that entry, or in the admin's clear.
C18_LeavesOnlyByEvictionReplayClear ==
  [][ \A jobId \in DeadLetterIds :
        (\A i \in 1..Len(deadLetterQueue') : deadLetterQueue'[i].id # jobId)
        => \/ /\ Len(deadLetterQueue) = DeadLetterCapacity
              /\ jobId = deadLetterQueue[1].id
              /\ InsertedNow # {}
           \/ retryFailedJob(jobId)
           \/ deadLetterClear
    ]_vars

\* C19 as stated: the admin's clear leaves the dead-letter store empty.
C19_ClearEmptiesDeadLetterStore ==
  ENABLED (deadLetterClear /\ deadLetterQueue' = << >>)

\* C20: a sweep removes from the job store exactly the jobs that are
\* completed or failed and were last updated more than RetentionWindow ms
\* ago; it keeps every pending, processing and retrying job and every job
\* updated within the window, and it leaves the job objects, the
\* dead-letter store, the pending queue and the in-flight set as they were.
C20_SweepRemovesOldTerminalJobs ==
  [][ cleanupOldJobs =>
        /\ \A j \in jobs :
             j \notin jobs' <=>
               /\ heap[j].status \in {"completed", "failed"}
               /\ now - heap[j].updatedAt > RetentionWindow
        /\ jobs' \subseteq jobs
        /\ UNCHANGED << heap, deadLetterQueue, pendingQueue, processingJobs,
                        running, retryTimers >>
    ]_vars

\* A sweep has removed a failed job last updated more than a day ago, whose
\* dead-letter entry is still there, and kept a completed job updated
\* exactly a day ago.
C20_Witness ==
  /\ \E j \in DeadLetterIds \ jobs :
       /\ heap[j].status = "failed"
       /\ now - heap[j].updatedAt > RetentionWindow
  /\ \E k \in jobs :
       /\ heap[k].status = "completed"
       /\ now - heap[k].updatedAt = RetentionWindow

\* C21: an execution that ends with the submission timeout leaves the
\* in-flight set with a network category; with attempts < maxAttempts the
\* job becomes retrying, with a backoff timer and no dead-letter entry;
\* with attempts >= maxAttempts it becomes failed with a dead-letter entry.
C21_TimeoutIsRetryable ==
  [][ \A id \in JobIds :
        ExecutionFails(id, TimeoutMessage) =>
          /\ id \notin processingJobs'
          /\ heap'[id].error = "Network congestion"
          /\ heap'[id].attempts = heap[id].attempts
          /\ IF heap[id].attempts < heap[id].maxAttempts
             THEN /\ heap'[id].status = "retrying"
                  /\ id \in retryTimers'
                  /\ deadLetterQueue' = deadLetterQueue
             ELSE /\ heap'[id].status = "failed"
                  /\ id \notin retryTimers'
                  /\ \E i \in 1..Len(deadLetterQueue') :
                       /\ deadLetterQueue'[i].id = id
                       /\ deadLetterQueue'[i].status = "failed"
    ]_vars

\* One job waits for its retry after a first timeout; another was
\* dead-lettered by its third.
C21_Witness ==
  /\ \E j \in retryTimers :
       /\ heap[j].status = "retrying"
       /\ heap[j].attempts = 1
       /\ heap[j].error = "Network congestion"
  /\ \E i \in 1..Len(deadLetterQueue) :
       /\ deadLetterQueue[i].attempts = routeMaxAttempts
       /\ deadLetterQueue[i].error = "Network congestion"

\* the patterns the claim calls non-retryable
NonRetryable(message) ==
  \E p \in { "insufficient funds", "cooldown", "blacklisted",
              "invalid address", "invalid token", "unauthorized",
              "forbidden", "not supported" } : LowerIncludes(message, p)

\* C22: a failure before the last attempt is not retried (the job is failed
\* and dead-lettered) exactly when its message matches a non-retryable
\* pattern, whether or not it also matches a retryable one; every other
\* failure, one that matches no pattern at all included, is retried.
C22_NonRetryableFirst ==
  [][ \A id \in JobIds, message \in Messages :
        ( /\ ExecutionFails(id, message)
          /\ heap[id].attempts < heap[id].maxAttempts )
        => IF NonRetryable(message)
           THEN heap'[id].status = "failed" /\ id \in DeadLetterIds'
           ELSE heap'[id].status = "retrying" /\ id \in retryTimers'
    ]_vars

\* 'insufficient funds for gas' (which matches 'gas' too) has dead-lettered
\* one job at its first attempt while 'Max retries exceeded' (which matches
\* nothing) has put another into its retry wait.
C22_Witness ==
  /\ \E i \in 1..Len(deadLetterQueue) :
       /\ deadLetterQueue[i].attempts = 1
       /\ deadLetterQueue[i].error = "Insufficient funds"
  /\ \E j \in retryTimers :
       /\ heap[j].status = "retrying"
       /\ heap[j].error = "Unknown error"

\* C23 as stated: a failure before the last attempt whose category is
\* Network, Gas, Nonce or Rate limited is retried, and one whose category is
\* Insufficient funds or Cooldown is dead-lettered on that attempt.
C23_CategoryAgreesWithVerdict ==
  [][ \A id \in JobIds, message \in Messages :
        ( /\ ExecutionFails(id, message)
          /\ heap[id].attempts < heap[id].maxAttempts )
        => /\ heap'[id].error \in { "Network error", "Network congestion",
                                    "Gas error", "Nonce error", "Rate limited" }
              => heap'[id].status = "retrying"
           /\ heap'[id].error \in { "Insufficient funds",
                                    "Cooldown period not met" }
              => heap'[id].status = "failed" /\ id \in DeadLetterIds'
    ]_vars

\* the jobs whose backoff timer this step sets
ScheduledNow == retryTimers' \ retryTimers

\* C24: the delay of a backoff timer set after a failure is
\* min(1000 * 2^attempts, 30000) ms plus the jitter drawn, for the attempts
\* counter of the job at that failure: with jitter 0 exactly that minimum,
\* never below the value for a smaller attempts counter and never above
\* 30000 ms; with any jitter below 31000 ms.  A timer that stays set keeps
\* its delay.
C24_BackoffDelay ==
  [][ /\ \A id \in ScheduledNow :
           LET attempts == heap'[id].attempts
               delay == timerDelay'[id]
           IN /\ attempts = heap[id].attempts
              /\ delay - jitter =
                   ( IF 1000 * 2^attempts < 30000 THEN 1000 * 2^attempts
                     ELSE 30000 )
              /\ \A n \in 1..attempts :
                   ( IF 1000 * 2^n < 30000 THEN 1000 * 2^n ELSE 30000 )
                   <= delay - jitter
              /\ delay - jitter <= 30000
              /\ delay < 31000
              /\ jitter = 0 => delay <= 30000
      /\ \A id \in retryTimers \cap retryTimers' :
           timerDelay'[id] = timerDelay[id]
      /\ DOMAIN timerDelay' = retryTimers'
    ]_vars

\* Timers are set at the cap, one after a sixth failure under jitter 0 and
\* one after a fifth failure under jitter 999.
C24_Witness ==
  /\ \E id \in retryTimers :
       heap[id].attempts = 6 /\ timerDelay[id] = 30000
  /\ \E id \in retryTimers :
       heap[id].attempts = 5 /\ timerDelay[id] = 30999

\* the dead-letter entries this step adds
DeadLetteredNow ==
  { entry \in Range(deadLetterQueue') : entry \notin Range(deadLetterQueue) }

\* C25: in every step the attempts counter of each job either stays or
\* grows by one, and it grows exactly when that step is a dispatch tick that
\* starts the job (the job is in the batch the tick took off the queue); a
\* job created in the step, by a submission or a replay, starts at 0; and a
\* dead-letter entry made in the step carries the counter of its job.
C25_AttemptsCountDispatches ==
  [][ /\ \A id \in JobIds :
           /\ heap'[id].attempts \in
                { heap[id].attempts, heap[id].attempts + 1 }
           /\ heap'[id].attempts = heap[id].attempts + 1
                <=> id \in Range(jobsToProcess')
      /\ \A id \in (1..Len(heap')) \ JobIds : heap'[id].attempts = 0
      /\ \A entry \in DeadLetteredNow :
           entry.attempts = heap'[entry.id].attempts
    ]_vars

\* Job 1 was started twice, was dead-lettered and replayed, and the job the
\* replay created has been started once and is waiting out its backoff.
C25_Witness ==
  /\ Len(heap) = 2
  /\ 1 \in jobs /\ heap[1].status = "failed" /\ heap[1].attempts = 2
  /\ ~Cancelled(1) /\ 1 \notin DeadLetterIds
  /\ heap[2].createdAt > heap[1].createdAt
  /\ heap[2].status = "retrying" /\ heap[2].attempts = 1

\* C26: every step that changes the status of a job (dispatch, success,
\* failure, entering retrying, the re-entry from retrying to pending after
\* the backoff, cancel) leaves the job's updatedAt at the time of the step.
C26_TransitionsStampUpdatedAt ==
  [][ \A id \in JobIds :
        heap'[id].status # heap[id].status => heap'[id].updatedAt = now'
    ]_vars

\* The same for every status change but the re-entry from retrying to
\* pending.
C26_TransitionsButReentryStamp ==
  [][ \A id \in JobIds :
        /\ heap'[id].status # heap[id].status
        /\ ~(heap[id].status = "retrying" /\ heap'[id].status = "pending")
        => heap'[id].updatedAt = now'
    ]_vars

\* the jobs waiting out their backoff
Retrying == { id \in JobIds : heap[id].status = "retrying" }

\* the jobs whose execution is under way
Executing == { id \in JobIds : heap[id].status = "processing" }

\* C27: a job in status retrying is not in the in-flight set, and a dispatch
\* tick that runs while some job is retrying starts as many pending jobs as
\* the ceiling leaves room for beside the executions under way (all of the
\* queue if it has fewer), none of them a retrying one.
C27_BackoffHoldsNoSlot ==
  /\ [](Retrying \cap processingJobs = {})
  /\ [][ processNextJobs /\ Retrying # {}
          => /\ Len(jobsToProcess') =
                  Min(maxConcurrentJobs - Cardinality(Executing),
                      Len(pendingQueue))
             /\ Range(jobsToProcess') \cap Retrying = {}
             /\ Retrying \subseteq { id \in JobIds :
                                       heap'[id].status = "retrying" }
       ]_vars

\* One job is waiting out its backoff and the last tick started three
\* others, which fill the ceiling.
C27_Witness ==
  /\ Retrying # {}
  /\ Len(jobsToProcess) = maxConcurrentJobs
  /\ Range(jobsToProcess) = processingJobs
  /\ Range(jobsToProcess) = Executing

\* the jobs that are in the pending queue or in the in-flight set
Live == Range(pendingQueue) \cup processingJobs

\* C28: every job of the pending queue or of the in-flight set has a record
\* in the job store; the step that creates a job puts it in the store and in
\* the pending queue together; and no step removes the record of a job that
\* is in the pending queue or in flight.
C28_LiveJobsHaveRecords ==
  /\ [](Live \subseteq jobs)
  /\ [][ /\ \A id \in (1..Len(heap')) \ JobIds :
              id \in jobs' /\ id \in Range(pendingQueue')
         /\ \A id \in jobs \ jobs' : id \notin Live
       ]_vars

\* The record of job 1 is gone from the store (swept, or cleared for its
\* address) after the retention window, while job 2, of the same address
\* and as old, is still pending or in flight and has its record.
C28_Witness ==
  /\ Len(heap) = 2
  /\ 1 \notin jobs /\ 2 \in jobs
  /\ 2 \in Live
  /\ heap[1].data.address = heap[2].data.address
  /\ heap[2].updatedAt < now - RetentionWindow

\* what a job is submitted with and created as
Submitted(job) ==
  << job.id, job.type, job.data, job.priority, job.maxAttempts,
     job.createdAt >>

\* C29: every job keeps its id, type, data, priority, maxAttempts and
\* createdAt in every step; a dead-letter entry made in a step has those of
\* its job, and the entries that stay keep theirs.
C29_SubmittedFieldsFixed ==
  [][ /\ \A id \in JobIds :
           heap'[id].id = id /\ Submitted(heap'[id]) = Submitted(heap[id])
      /\ \A entry \in DeadLetteredNow :
           Submitted(entry) = Submitted(heap'[entry.id])
      /\ \A entry \in Range(deadLetterQueue') :
           Submitted(entry) = Submitted(heap[entry.id])
    ]_vars

\* Job 1, a token claim, was started, failed, waited, re-entered the queue
\* and was cancelled there at a later time; job 2 was dead-lettered.
C29_Witness ==
  /\ Len(heap) = 2
  /\ heap[1].type = "TOKEN_CLAIM" /\ heap[1].priority = 2
  /\ Cancelled(1) /\ heap[1].attempts = 1
  /\ heap[1].createdAt < heap[1].updatedAt
  /\ 2 \in DeadLetterIds

\* the claims of an address accepted so far: its jobs queued and its
\* direct claims executed
Accepted(address) ==
  Cardinality({ id \in JobIds : heap[id].data.address = address })
    + directClaims

\* C30: whatever the interleaving of the queued and the direct claim
\* requests of an address on one day, the claims accepted for it are at most
\* the daily limit of 5.
C30_AcceptedWithinDailyLimit ==
  \A address \in Addresses : Accepted(address) <= DailyLimit

\* The same while no direct claim has been executed, and the count kept
\* under a key is at most the limit.
C30_QueuedAloneWithinLimit ==
  /\ directClaims = 0 =>
       \A address \in Addresses : Accepted(address) <= DailyLimit
  /\ \A claimKey \in DOMAIN dailyClaims : dailyClaims[claimKey] <= DailyLimit

\* two spellings of one address, or one spelling
SameAddress(a, b) == a = b \/ {a, b} = {"ok", "OK"}

\* C31: clearUserJobs(address) removes from the job store the completed and
\* failed jobs whose address is that address in either spelling, and nothing
\* else: no pending, processing or retrying job and no job of another
\* address; it leaves the pending queue, the in-flight set and every job
\* object as they were.
C31_ClearTakesOnlyTerminalJobsOfUser ==
  [][ \A address \in ClearAddresses :
        clearUserJobs(address) =>
          /\ jobs' \subseteq jobs
          /\ \A id \in jobs \ jobs' :
               /\ SameAddress(heap[id].data.address, address)
               /\ heap[id].status \in {"completed", "failed"}
          /\ \A id \in jobs' :
               ~( /\ SameAddress(heap[id].data.address, address)
                  /\ heap[id].status \in {"completed", "failed"} )
          /\ pendingQueue' = pendingQueue
          /\ processingJobs' = processingJobs
          /\ heap' = heap
    ]_vars

\* The clearing has taken the completed job 1 of address "ok" in one
\* spelling; job 2, of the same address in the other spelling, is still
\* under way, and the failed job 3 of the other address has its record.
C31_Witness ==
  /\ Len(heap) = 3
  /\ heap[1].status = "completed" /\ 1 \notin jobs
  /\ {heap[1].data.address, heap[2].data.address} = {"ok", "OK"}
  /\ heap[2].status \in {"pending", "processing", "retrying"} /\ 2 \in jobs
  /\ heap[3].data.address = "bad" /\ heap[3].status = "failed" /\ 3 \in jobs

\* the unsettled executor calls made for a job
CallsOf(id) == { call \in executorCalls : call[1] = id }

\* C32: at any time every job has at most one unsettled executor call, and
\* the unsettled executor calls are at most the ceiling, also after a
\* submission timeout.
C32_OneExecutorCallPerJob ==
  /\ \A id \in JobIds : Cardinality(CallsOf(id)) <= 1
  /\ Cardinality(executorCalls) <= maxConcurrentJobs

\* The same of the calls a processJob is still waiting for: one for each
\* job in flight and none else, at most the ceiling.
C32_AwaitedCallsWithinCeiling ==
  LET awaited == { call \in executorCalls :
                     /\ call[1] \in running
                     /\ call[2] = heap[call[1]].attempts }
  IN /\ awaited = { << id, heap[id].attempts >> : id \in running }
     /\ Cardinality(awaited) <= maxConcurrentJobs

\* how often a job is in the pending queue
TimesQueued(id) ==
  Cardinality({ i \in 1..Len(pendingQueue) : pendingQueue[i] = id })

\* C33: a job of the job store has status pending exactly when it is in the
\* pending queue, no job is in the pending queue twice, and every job of the
\* pending queue has a record in the store.
C33_PendingIffQueuedOnce ==
  /\ \A id \in jobs :
       heap[id].status = "pending" <=> TimesQueued(id) = 1
  /\ \A id \in JobIds : TimesQueued(id) <= 1
  /\ Range(pendingQueue) \subseteq jobs

\* Job 1 was dead-lettered and replayed as job 3, job 2 has failed once and
\* re-entered the queue after its backoff: both are pending and queued.
C33_Witness ==
  /\ Len(heap) = 3
  /\ heap[1].status = "failed" /\ ~Cancelled(1) /\ 1 \notin DeadLetterIds
  /\ heap[2].attempts = 1 /\ heap[2].status = "pending"
  /\ heap[3].attempts = 0 /\ heap[3].status = "pending"
  /\ Range(pendingQueue) = {2, 3}

\* the job exists and is completed or failed
Ended(id) ==
  id \in JobIds /\ heap[id].status \in {"completed", "failed"}

\* C34: every job that has been submitted is eventually completed or
\* failed: none stays pending, processing or retrying for ever.
C34_EveryJobEnds ==
  \A id \in 1..LiveJobs : (id \in JobIds) ~> Ended(id)

\* Job 1 has completed at its second attempt and job 2 has failed for good
\* after its second attempt timed out.
C34_Witness ==
  /\ Len(heap) = 2
  /\ heap[1].status = "completed" /\ heap[1].attempts = 2
  /\ heap[2].status = "failed" /\ heap[2].attempts = 2
  /\ heap[2].error = categorizeError(TimeoutMessage)

\* C35: every entry of the dead-letter store has status failed, at least
\* one attempt and the error of a failed execution; an entry is made only
\* for a job whose execution the step ends or the tick has just started; and
\* a job that was cancelled is not in the dead-letter store and a replay of
\* its id changes nothing.
C35_DeadLettersAreFailedExecutions ==
  /\ [] \A entry \in Range(deadLetterQueue) :
          /\ entry.status = "failed"
          /\ entry.attempts >= 1
          /\ entry.error \notin {NoError, "Cancelled by user"}
  /\ [] \A id \in JobIds :
          Cancelled(id) =>
            /\ id \notin DeadLetterIds
            /\ ~ENABLED (retryFailedJob(id) /\ vars' # vars)
  /\ [][ \A entry \in DeadLetteredNow :
            \/ heap[entry.id].status = "processing"
            \/ entry.id \in Range(jobsToProcess')
      ]_vars

\* Job 1 failed once, re-entered the queue and was cancelled there; job 2
\* was dead-lettered.
C35_Witness ==
  /\ Len(heap) >= 2
  /\ Cancelled(1) /\ heap[1].attempts = 1 /\ 1 \notin DeadLetterIds
  /\ 2 \in DeadLetterIds

\* C36: a job has a transaction hash exactly when it is completed, and a
\* completed job has no error, whatever attempts failed before it succeeded.
C36_CompletedHasHashAndNoError ==
  \A id \in JobIds :
    /\ heap[id].transactionHash # NoHash <=> heap[id].status = "completed"
    /\ heap[id].status = "completed" => heap[id].error = NoError

\* The first half alone, and the error of a job that completed at its
\* first attempt.
C36_HashIffCompleted ==
  \A id \in JobIds :
    /\ heap[id].transactionHash # NoHash <=> heap[id].status = "completed"
    /\ heap[id].status = "completed" /\ heap[id].attempts = 1
         => heap[id].error = NoError

\* C37: once the queue is destroyed, the job store, the pending queue and
\* the in-flight set are empty, in that state and in every later one.
C37_InertAfterDestroy ==
  ~isProcessing =>
    jobs = {} /\ pendingQueue = << >> /\ processingJobs = {}

\* The same of the job store and the in-flight set alone.
C37_StoreAndSlotsEmptyAfterDestroy ==
  ~isProcessing => jobs = {} /\ processingJobs = {}

\* C38: in every state getStats reports as many pending jobs as the
\* pending queue is long and as many processing jobs as the in-flight set
\* has members.
C38_StatsConsistent ==
  /\ getStats.pendingJobs = getStats.queueLength
  /\ getStats.processingJobs = Cardinality(processingJobs)

\* The same in the states of a queue that has not been destroyed.
C38_StatsConsistentWhileLive ==
  isProcessing =>
    /\ getStats.pendingJobs = getStats.queueLength
    /\ getStats.processingJobs = Cardinality(processingJobs)

====
